---- MODULE Spec2Model ----
(***************************************************************************)
(* A model of the two programs of Intel-Parallel-STL-Tests:                *)
(*   IntelParSTL.cpp        : main, TestTrig, TestDotProduct, RunAndMeasure *)
(*   IntelCompilerTests.cpp : the BM_* benchmark bodies and registrations   *)
(* Floating-point values are modelled by exact integers in scaled units.   *)
(*                                                                         *)
(* Specifications:                                                         *)
(*   SpecRun    RunAndMeasure on an arbitrary computation                  *)
(*   SpecMain   main: argument parsing and the step selector               *)
(*   SpecManual TestTrig and TestDotProduct, element by element            *)
(*   SpecBench  one benchmark case (a BM_* body under one policy)          *)
(*   SpecReg    the BENCHMARK_CAPTURE registrations and their expansion    *)
(*   SpecRng    the thread-local random engines                            *)
(***************************************************************************)
EXTENDS Integers, Sequences, FiniteSets, Bags, TLC

VARIABLES
    \* main (IntelParSTL.cpp)
    argc, argv, vecSize, step, pc, stdout,
    \* RunAndMeasure
    title, i, results, times, rmpc, calls, timedRet, timedDur,
    \* buffers and the progress of the running parallel algorithm
    vec, out, v1, v2, firstVec, secondVec, points,
    prices, quantities, discounts, profit,
    execution_policy, done, partials, res, written,
    \* one benchmark case (IntelCompilerTests.cpp)
    family, range0, iterations, bpc,
    \* TestTrig / TestDotProduct: which RunAndMeasure call, where its lambda
    \* is, and whether an access outside a buffer has happened
    callNo, fpc, oob,
    \* registration of the benchmark cases
    regpc, regLine, regCall, cur, registry, instances,
    \* the random engines of the generator functions
    engine, tpc, drawCount, callCount

mainVars == <<argc, argv, vecSize, step, pc, stdout>>
rmVars   == <<title, i, results, times, rmpc, calls, timedRet, timedDur>>
bufVars  == <<vec, out, v1, v2, firstVec, secondVec, points,
              prices, quantities, discounts, profit>>
algVars  == <<execution_policy, done, partials, res, written>>
benchVars == <<family, range0, iterations, bpc>>
testVars == <<callNo, fpc, oob>>
regVars  == <<regpc, regLine, regCall, cur, registry, instances>>
rngVars  == <<engine, tpc, drawCount, callCount>>
extVars  == <<regVars, rngVars>>
vars     == <<mainVars, rmVars, bufVars, algVars, benchVars, testVars, extVars>>

---------------------------------------------------------------------------
\* Generic helpers

Range(s) == {s[k] : k \in 1..Len(s)}

SetMin(S) == CHOOSE x \in S : \A y \in S : x <= y
SetMax(S) == CHOOSE x \in S : \A y \in S : y <= x

---------------------------------------------------------------------------
\* RunAndMeasure (IntelParSTL.cpp:18-34)

RUN_TIMES == 5

\* Largest elapsed time one invocation can take, in clock ticks.
MaxDur == 4
Durations == 0..MaxDur

\* Values an arbitrary computation handed to RunAndMeasure can return.
Values == {7, 9}

Titles == {"pstl::execution::seq", "pstl::execution::par"}

\* std::set<double>::insert : the set is kept as an ascending sequence of
\* distinct keys; an equal key is not inserted a second time.
SetInsertUnordered(s, d) == IF d \in Range(s) THEN s ELSE Append(s, d)
SetInsert(s, d) ==
    IF d \in Range(s) THEN s
    ELSE LET lo == SelectSeq(s, LAMBDA x : x < d)
             hi == SelectSeq(s, LAMBDA x : x > d)
         IN  lo \o <<d>> \o hi

\* std::vector results(RUN_TIMES, func()) : RUN_TIMES copies of one value.
ResultsInit(v) == [k \in 1..RUN_TIMES |-> v]

\* results[i] = ret  (i is the 0-based loop index)
StoreResultDropped(rs, idx, ret) == rs
StoreResult(rs, idx, ret) == [rs EXCEPT ![idx + 1] = ret]

\* The token printed last on the line: results[0].
PrintedResult(rs) == rs[1]

\* One line of std::cout written by RunAndMeasure.
TimingLine(t, s, rs) ==
    [kind |-> "timing", label |-> t, min |-> s[1], max |-> s[Len(s)],
     result |-> PrintedResult(rs)]

\* Entry of RunAndMeasure: `std::set<double> times;`
RM_Enter(t) ==
    /\ rmpc \in {"idle", "printed"}
    /\ title' = t
    /\ times' = <<>>
    /\ results' = <<>>
    /\ i' = 0
    /\ calls' = 0
    /\ timedRet' = <<>>
    /\ timedDur' = <<>>
    /\ rmpc' = "warm"

\* Line 23: the first, untimed invocation returned v.
RM_WarmUp(v) ==
    /\ rmpc = "warm"
    /\ results' = ResultsInit(v)
    /\ calls' = calls + 1
    /\ i' = 0
    /\ rmpc' = "loop"
    /\ UNCHANGED <<title, times, timedRet, timedDur>>

\* Lines 24-31: one pass of the loop; func returned ret after d ticks.
RM_Timed(ret, d) ==
    /\ rmpc = "loop"
    /\ i < RUN_TIMES
    /\ results' = StoreResult(results, i, ret)
    /\ times' = SetInsert(times, d)
    /\ i' = i + 1
    /\ calls' = calls + 1
    /\ timedRet' = Append(timedRet, ret)
    /\ timedDur' = Append(timedDur, d)
    /\ UNCHANGED <<title, rmpc>>

\* Line 33: the loop is over, the summary line is printed.
RM_Print ==
    /\ rmpc = "loop"
    /\ i >= RUN_TIMES
    /\ stdout' = Append(stdout, TimingLine(title, times, results))
    /\ rmpc' = "printed"
    /\ UNCHANGED <<title, i, results, times, calls, timedRet, timedDur>>

---------------------------------------------------------------------------
\* The element-wise operations and the execution policies

\* Largest buffer length.
MaxSize == 2

Policies == {"seq", "unseq", "par", "par_unseq"}

\* The indices whose element access may happen next: the sequential policy
\* takes them in ascending order in the calling thread; the vectorized and
\* the parallel policies leave the order of the element accesses open.
Eligible(policy, doneSet, n) ==
    LET todo == (1..n) \ doneSet
    IN  IF policy = "seq"
        THEN {k \in todo : \A m \in todo : k <= m}
        ELSE todo

\* The algorithm call returns once every element access has happened.
AllDone(doneSet, n) == doneSet = 1..n

\* Angles in units of pi/12, drawn from [0, pi/2).
AngleVals == {0, 1, 3}

\* sqrt(sin(v)*cos(v)) in units of 1/1000, v in units of pi/12.
TrigTable == [v \in 0..5 |->
    CASE v = 0 -> 0
      [] v = 1 -> 500
      [] v = 2 -> 658
      [] v = 3 -> 707
      [] v = 4 -> 658
      [] v = 5 -> 500]

\* The lambda [](double v) { return std::sqrt(std::sin(v)*std::cos(v)); }
TrigLambda(v) == TrigTable[v]

\* One element access of std::transform(policy, vec.begin(), vec.end(),
\* out.begin(), lambda): out[k] = lambda(vec[k]).
TransformElemFirst(o, v, k) == [o EXCEPT ![k] = TrigLambda(v[1])]
TransformElem(o, v, k) == [o EXCEPT ![k] = TrigLambda(v[k])]

\* The whole transform as the sequential policy runs it, first to last.
RECURSIVE TransformUpTo(_, _, _)
TransformUpTo(o, v, k) ==
    IF k = 0 THEN o ELSE TransformElem(TransformUpTo(o, v, k - 1), v, k)

\* std::multiplies<double> and std::plus<double> of transform_reduce.
Multiplies(a, b) == a * b
PlusAsMultiplies(a, b) == a * b
Plus(a, b) == a + b

OneBag(x) == SetToBag({x})

\* transform_reduce: the sequential policy keeps one accumulator; the other
\* policies may start a new partial sum or extend any existing one.
ReduceElemResults(policy, bag, p) ==
    IF policy = "seq"
    THEN {OneBag(Plus(a, p)) : a \in BagToSet(bag)}
    ELSE {bag (+) OneBag(p)}
         \cup {(bag (-) OneBag(a)) (+) OneBag(Plus(a, p)) : a \in BagToSet(bag)}

\* Two partial sums are combined into one.
ReduceCombineResults(bag) ==
    {((bag (-) OneBag(a)) (-) OneBag(b)) (+) OneBag(Plus(a, b)) :
        <<a, b>> \in {ab \in BagToSet(bag) \X BagToSet(bag) :
                        ab[1] # ab[2] \/ CopiesIn(ab[1], bag) >= 2}}

\* The sequential reduction, first to last, from the initial value 0.
RECURSIVE DotUpTo(_, _, _)
DotUpTo(a, b, k) ==
    IF k = 0 THEN 0 ELSE Plus(DotUpTo(a, b, k - 1), Multiplies(a[k], b[k]))

\* glm::vec4 points; the comparison of BM_SortPoints inspects x alone.
PointVals == {[x |-> a, y |-> b, z |-> 0, w |-> 1] : a \in {-1, 0, 1}, b \in {-1, 1}}

CompY(a, b) == a.y < b.y
Comp(a, b) == a.x < b.x

PermutationsOf(p) ==
    {[k \in 1..Len(p) |-> p[f[k]]] :
        f \in {g \in [1..Len(p) -> 1..Len(p)] : \A a, b \in 1..Len(p) : g[a] = g[b] => a = b}}

\* std::sort(policy, first, last, comp): the buffer is left as a permutation
\* of itself in which no element compares less than an earlier one.
SortResults(p) ==
    {q \in PermutationsOf(p) : \A a, b \in 1..Len(q) : a < b => ~Comp(q[b], q[a])}

\* BM_CountingIter: one index's draws (price in units of 1/2, quantity,
\* discount in percent).
PricingDraws == {<<1, 1, 0>>, <<200, 100, 50>>, <<7, 3, 25>>}

\* (prices[i] * (1.0f - discounts[i])) * quantities[i], in units of 1/200.
ProfitOfDiscountAsFactor(pr, d, q) == (pr * d) * q
ProfitOf(pr, d, q) == (pr * (100 - d)) * q

Zeros(n) == [k \in 1..n |-> 0]

---------------------------------------------------------------------------
\* SpecRun: RunAndMeasure on an arbitrary computation

MainIdle ==
    /\ argc = 1
    /\ argv = <<>>
    /\ vecSize = 0
    /\ step = 0
    /\ pc = "none"
    /\ stdout = <<>>

RmIdle ==
    /\ title = ""
    /\ i = 0
    /\ results = <<>>
    /\ times = <<>>
    /\ rmpc = "idle"
    /\ calls = 0
    /\ timedRet = <<>>
    /\ timedDur = <<>>

BufIdle ==
    /\ vec = <<>> /\ out = <<>>
    /\ v1 = <<>> /\ v2 = <<>>
    /\ firstVec = <<>> /\ secondVec = <<>>
    /\ points = <<>>
    /\ prices = <<>> /\ quantities = <<>> /\ discounts = <<>> /\ profit = <<>>

AlgIdle ==
    /\ execution_policy = "none"
    /\ done = {}
    /\ partials = EmptyBag
    /\ res = 0
    /\ written = {}

BenchIdle ==
    /\ family = "none"
    /\ range0 = 0
    /\ iterations = 0
    /\ bpc = "idle"

TestIdle ==
    /\ callNo = 0
    /\ fpc = "idle"
    /\ oob = FALSE

RegIdle ==
    /\ regpc = "idle"
    /\ regLine = 0
    /\ regCall = 0
    /\ cur = <<>>
    /\ registry = <<>>
    /\ instances = <<>>

RngIdle ==
    /\ engine = <<>>
    /\ tpc = <<>>
    /\ drawCount = <<>>
    /\ callCount = <<>>

OthersIdle == BufIdle /\ AlgIdle /\ BenchIdle /\ TestIdle /\ RegIdle /\ RngIdle
otherVars == <<bufVars, algVars, benchVars, testVars, extVars>>

InitRun == MainIdle /\ RmIdle /\ OthersIdle

RunEnter ==
    /\ rmpc = "idle"
    /\ \E t \in Titles : RM_Enter(t)
    /\ UNCHANGED <<mainVars, otherVars>>

RunWarmUp ==
    /\ \E v \in Values : RM_WarmUp(v)
    /\ UNCHANGED <<mainVars, otherVars>>

RunTimed ==
    /\ \E v \in Values, d \in Durations : RM_Timed(v, d)
    /\ UNCHANGED <<mainVars, otherVars>>

RunPrint ==
    /\ RM_Print
    /\ UNCHANGED <<argc, argv, vecSize, step, pc, otherVars>>

NextRun == RunEnter \/ RunWarmUp \/ RunTimed \/ RunPrint

SpecRun == InitRun /\ [][NextRun]_vars

\* The line RunAndMeasure printed.
PrintedLine == stdout[Len(stdout)]

\* C2 (as stated): the printed line carries the minimum and the maximum of the
\* collected elapsed times and the value returned by the final invocation of
\* the computation.
C2_PrintsLastComputed ==
    rmpc = "printed" =>
        /\ PrintedLine.label = title
        /\ PrintedLine.min = SetMin(Range(timedDur))
        /\ PrintedLine.max = SetMax(Range(timedDur))
        /\ PrintedLine.result = timedRet[Len(timedRet)]

\* C2 (amended): the printed line carries the label, the minimum and the
\* maximum of the collected elapsed times, and results[0], the value returned
\* by the first timed invocation (the second invocation overall).
C2_PrintsFirstTimed ==
    rmpc = "printed" =>
        /\ PrintedLine.label = title
        /\ PrintedLine.min = SetMin(Range(timedDur))
        /\ PrintedLine.max = SetMax(Range(timedDur))
        /\ PrintedLine.result = timedRet[1]

C2_Witness ==
    /\ rmpc = "printed"
    /\ timedRet[1] # timedRet[Len(timedRet)]
    /\ PrintedLine.min < PrintedLine.max
    /\ timedDur[1] > timedDur[2]

\* C10: the computation is invoked once untimed, then RUN_TIMES times timed;
\* at the print every result slot holds the result of a timed invocation, the
\* sample set holds exactly the durations of the timed invocations, it has
\* between 1 and RUN_TIMES entries and its first entry is <= its last.
C10_WarmUpDiscarded ==
    /\ rmpc = "warm" => (calls = 0 /\ timedRet = <<>> /\ timedDur = <<>>)
    /\ rmpc = "loop" => (calls = 1 + i /\ Len(timedRet) = i /\ Len(timedDur) = i)
    /\ rmpc = "printed" =>
        /\ calls = 1 + RUN_TIMES
        /\ Len(timedRet) = RUN_TIMES
        /\ \A k \in 1..RUN_TIMES : results[k] = timedRet[k]
        /\ Range(times) = Range(timedDur)
        /\ Len(times) >= 1
        /\ Len(times) <= RUN_TIMES
        /\ Len(times) = Cardinality(Range(times))
        /\ times[1] <= times[Len(times)]

C10_Witness ==
    /\ rmpc = "printed"
    /\ Len(times) = 3
    /\ \E k \in 1..RUN_TIMES : timedRet[k] # timedRet[1]

---------------------------------------------------------------------------
\* main (IntelParSTL.cpp:131-145), with TestTrig and TestDotProduct seen from
\* main: what each call leaves behind is its output on std::cout.

\* Longest command-line argument, in characters.
MaxArgLen == 2

Chars == {" ", "-", "0", "2", "3", "x"}

DigitChars == <<"0", "1", "2", "3", "4", "5", "6", "7", "8", "9">>

Digit == [c \in Range(DigitChars) |-> (CHOOSE k \in 1..10 : DigitChars[k] = c) - 1]

IsDigit(c) == c \in DOMAIN Digit

RECURSIVE SkipSpaces(_)
SkipSpaces(s) ==
    IF s # <<>> /\ Head(s) = " " THEN SkipSpaces(Tail(s)) ELSE s

\* The value of the longest prefix of decimal digits of s, continuing acc.
RECURSIVE DigitsValue(_, _)
DigitsValue(s, acc) ==
    IF s # <<>> /\ IsDigit(Head(s))
    THEN DigitsValue(Tail(s), 10 * acc + Digit[Head(s)])
    ELSE acc

\* atoi: leading white space is skipped, then an optional sign, then decimal
\* digits up to the first other character; no digits give 0.
atoi(str) ==
    LET s == SkipSpaces(str)
    IN  IF s # <<>> /\ Head(s) = "-" THEN 0 - DigitsValue(Tail(s), 0)
        ELSE DigitsValue(s, 0)

ArgStrings == UNION {[1..n -> Chars] : n \in 0..MaxArgLen}

DefaultVecSize == 6000000

\* Line 133: const size_t vecSize = argc > 1 ? atoi(argv[1]) : 6000000;
ParseVecSize(ac, av) == IF ac > 1 THEN atoi(av[1]) ELSE DefaultVecSize

\* Line 136: int step = argc > 2 ? atoi(argv[2]) : 0;
ParseStep(ac, av) == IF ac > 2 THEN atoi(av[2]) ELSE 0

\* Line 138 and line 141: the conditions on step.
RunsTrigOnZeroOnly(st) == st = 0
RunsTrig(st) == st = 0 \/ st = 2
RunsDotProduct(st) == st = 0 \/ st = 3

TrigHeader == [kind |-> "header", label |-> "sqrt(sin*cos):"]
DotHeader  == [kind |-> "header", label |-> "dot product:"]

TrigLabels == <<"pstl::execution::seq", "pstl::execution::par",
                "std::transform seq", "std::transform par">>
DotLabels  == <<"pstl::execution::seq", "pstl::execution::par",
                "std::execution::seq", "std::execution::par">>

\* What a whole call of TestTrig / TestDotProduct writes, timings left out.
LabelLines(labels) == [k \in 1..Len(labels) |-> [kind |-> "timing", label |-> labels[k]]]
TestTrigOutput == <<TrigHeader>> \o LabelLines(TrigLabels)
TestDotProductOutput == <<DotHeader>> \o LabelLines(DotLabels)

InitMain ==
    /\ argc \in 1..3
    /\ argv \in [1..(argc - 1) -> ArgStrings]
    \* a negative size converts to a size_t near 2^64, outside the model's integers
    /\ argc > 1 => atoi(argv[1]) >= 0
    /\ vecSize = 0
    /\ step = 0
    /\ pc = "main_133"
    /\ stdout = <<>>
    /\ RmIdle
    /\ OthersIdle

MainSize ==
    /\ pc = "main_133"
    /\ vecSize' = ParseVecSize(argc, argv)
    /\ stdout' = Append(stdout, [kind |-> "size", value |-> vecSize'])
    /\ pc' = "main_136"
    /\ UNCHANGED <<argc, argv, step, rmVars, otherVars>>

MainStep ==
    /\ pc = "main_136"
    /\ step' = ParseStep(argc, argv)
    /\ pc' = "main_138"
    /\ UNCHANGED <<argc, argv, vecSize, stdout, rmVars, otherVars>>

\* Line 138-139: TestTrig(vecSize) runs to its end. (With an empty buffer its
\* lambdas read out[0] outside the buffer; here the reads yielded values.)
MainTrig ==
    /\ pc = "main_138"
    /\ stdout' = IF RunsTrig(step) THEN stdout \o TestTrigOutput ELSE stdout
    /\ pc' = "main_141"
    /\ UNCHANGED <<argc, argv, vecSize, step, rmVars, otherVars>>

\* Line 138-139 with an empty buffer: a lambda of TestTrig reads out[0]
\* outside the buffer and the process is stopped, during the (k+1)-th
\* RunAndMeasure call.
MainTrigCrash ==
    /\ pc = "main_138"
    /\ RunsTrig(step)
    /\ vecSize = 0
    /\ \E k \in 0..3 : stdout' = stdout \o SubSeq(TestTrigOutput, 1, k + 1)
    /\ pc' = "crashed"
    /\ UNCHANGED <<argc, argv, vecSize, step, rmVars, otherVars>>

MainDotProduct ==
    /\ pc = "main_141"
    /\ stdout' = IF RunsDotProduct(step) THEN stdout \o TestDotProductOutput ELSE stdout
    /\ pc' = "main_144"
    /\ UNCHANGED <<argc, argv, vecSize, step, rmVars, otherVars>>

MainReturn ==
    /\ pc = "main_144"
    /\ pc' = "exit_0"
    /\ UNCHANGED <<argc, argv, vecSize, step, stdout, rmVars, otherVars>>

NextMain ==
    \/ MainSize \/ MainStep \/ MainTrig \/ MainTrigCrash
    \/ MainDotProduct \/ MainReturn

SpecMain == InitMain /\ [][NextMain]_vars

Positions(line) == {k \in 1..Len(stdout) : stdout[k] = line}

\* C3: when the program ends, the trigonometric test has run iff step is 0 or
\* 2 and the dot-product test iff step is 0 or 3, trig before dot product;
\* the size is printed before any operation output and is 6,000,000 when no
\* argument is given.
C3_StepSelector ==
    /\ pc \in {"exit_0", "crashed"} =>
        /\ Positions(TrigHeader) # {} <=> step \in {0, 2}
        /\ Positions(DotHeader) # {} <=> step \in {0, 3}
        /\ \A a \in Positions(TrigHeader), b \in Positions(DotHeader) : a < b
    /\ pc # "main_133" =>
        /\ stdout[1] = [kind |-> "size", value |-> vecSize]
        /\ \A k \in 2..Len(stdout) : stdout[k].kind # "size"
        /\ argc = 1 => vecSize = 6000000
    /\ pc = "main_133" => stdout = <<>>

---------------------------------------------------------------------------
\* One benchmark case: a BM_* body run by the benchmark harness
\* (IntelCompilerTests.cpp:39-125)

\* Most timed iterations the harness asks of one case.
MaxIters == 2

Families == {"BM_Trigonometry", "BM_SortPoints", "BM_DotProduct", "BM_CountingIter"}

\* The policies each family is registered with (lines 56-59, 78-79, 97-100,
\* 127-130).
PoliciesOf(fam) == IF fam = "BM_SortPoints" THEN {"seq", "par"} ELSE Policies

\* Values of GenRandomFloat(-1.0f, 1.0f), in units of 1/2.
DotVals == {-1, 2}

InitBench ==
    /\ MainIdle /\ RmIdle /\ BufIdle /\ TestIdle /\ RegIdle /\ RngIdle
    /\ family \in Families
    /\ execution_policy \in PoliciesOf(family)
    /\ range0 \in 0..MaxSize
    /\ iterations = 0
    /\ bpc = "setup"
    /\ done = {}
    /\ partials = EmptyBag
    /\ res = 0
    /\ written = {}

\* Lines 42-44
BM_Trigonometry_Setup ==
    /\ family = "BM_Trigonometry" /\ bpc = "setup"
    /\ vec' \in [1..range0 -> AngleVals]
    /\ out' = vec'
    /\ bpc' = "loop"
    /\ UNCHANGED <<mainVars, rmVars, testVars, extVars, v1, v2, firstVec, secondVec, points, prices, quantities,
                   discounts, profit, algVars, family, range0, iterations>>

\* Lines 64-67
BM_SortPoints_Setup ==
    /\ family = "BM_SortPoints" /\ bpc = "setup"
    /\ points' \in [1..range0 -> PointVals]
    /\ bpc' = "loop"
    /\ UNCHANGED <<mainVars, rmVars, testVars, extVars, vec, out, v1, v2, firstVec, secondVec, prices, quantities,
                   discounts, profit, algVars, family, range0, iterations>>

\* Lines 84-87
BM_DotProduct_Setup ==
    /\ family = "BM_DotProduct" /\ bpc = "setup"
    /\ firstVec' \in [1..range0 -> DotVals]
    /\ secondVec' \in [1..range0 -> DotVals]
    /\ bpc' = "loop"
    /\ UNCHANGED <<mainVars, rmVars, testVars, extVars, vec, out, v1, v2, points, prices, quantities,
                   discounts, profit, algVars, family, range0, iterations>>

\* Lines 105-109
BM_CountingIter_Setup ==
    /\ family = "BM_CountingIter" /\ bpc = "setup"
    /\ prices' = Zeros(range0)
    /\ quantities' = Zeros(range0)
    /\ discounts' = Zeros(range0)
    /\ profit' = Zeros(range0)
    /\ bpc' = "loop"
    /\ UNCHANGED <<mainVars, rmVars, testVars, extVars, vec, out, v1, v2, firstVec, secondVec, points,
                   algVars, family, range0, iterations>>

FirstCall(fam) ==
    CASE fam = "BM_Trigonometry" -> "transform"
      [] fam = "BM_SortPoints"   -> "sort"
      [] fam = "BM_DotProduct"   -> "transform_reduce"
      [] fam = "BM_CountingIter" -> "for_each"

\* for (auto _ : state) : the harness asks for one more iteration.
BenchIterate ==
    /\ bpc = "loop"
    /\ iterations < MaxIters
    /\ bpc' = FirstCall(family)
    /\ done' = {}
    /\ written' = {}
    /\ partials' = IF family = "BM_DotProduct" THEN OneBag(0) ELSE EmptyBag
    /\ UNCHANGED <<mainVars, rmVars, testVars, extVars, bufVars, execution_policy, res, family, range0, iterations>>

\* The harness ends the case; it runs at least one iteration.
BenchFinish ==
    /\ bpc = "loop"
    /\ iterations >= 1
    /\ bpc' = "finished"
    /\ UNCHANGED <<mainVars, rmVars, testVars, extVars, bufVars, algVars, family, range0, iterations>>

\* Lines 48-52
TrigElem ==
    /\ bpc = "transform"
    /\ \E k \in Eligible(execution_policy, done, range0) :
        /\ out' = TransformElem(out, vec, k)
        /\ done' = done \cup {k}
    /\ UNCHANGED <<mainVars, rmVars, testVars, extVars, vec, v1, v2, firstVec, secondVec, points, prices, quantities,
                   discounts, profit, execution_policy, partials, res, written,
                   benchVars>>

TrigReturn ==
    /\ bpc = "transform"
    /\ AllDone(done, range0)
    /\ bpc' = "loop"
    /\ iterations' = iterations + 1
    /\ UNCHANGED <<mainVars, rmVars, testVars, extVars, bufVars, algVars, family, range0>>

\* Lines 71-73
SortCall ==
    /\ bpc = "sort"
    /\ points' \in SortResults(points)
    /\ bpc' = "loop"
    /\ iterations' = iterations + 1
    /\ UNCHANGED <<mainVars, rmVars, testVars, extVars, vec, out, v1, v2, firstVec, secondVec, prices, quantities,
                   discounts, profit, algVars, family, range0>>

\* Lines 91-92
DotElem ==
    /\ bpc = "transform_reduce"
    /\ \E k \in Eligible(execution_policy, done, range0) :
        /\ partials' \in ReduceElemResults(execution_policy, partials,
                                           Multiplies(firstVec[k], secondVec[k]))
        /\ done' = done \cup {k}
    /\ UNCHANGED <<mainVars, rmVars, testVars, extVars, bufVars, execution_policy, res, written, benchVars>>

DotCombine ==
    /\ bpc = "transform_reduce"
    /\ execution_policy # "seq"
    /\ partials' \in ReduceCombineResults(partials)
    /\ UNCHANGED <<mainVars, rmVars, testVars, extVars, bufVars, execution_policy, done, res, written, benchVars>>

DotReturn ==
    /\ bpc = "transform_reduce"
    /\ AllDone(done, range0)
    /\ BagCardinality(partials) = 1
    /\ res' \in BagToSet(partials)
    /\ bpc' = "loop"
    /\ iterations' = iterations + 1
    /\ UNCHANGED <<mainVars, rmVars, testVars, extVars, bufVars, execution_policy, done, partials, written, family, range0>>

\* Lines 113-118
PopulateElem ==
    /\ bpc = "for_each"
    /\ \E k \in Eligible(execution_policy, done, range0), d \in PricingDraws :
        /\ prices' = [prices EXCEPT ![k] = d[1]]
        /\ quantities' = [quantities EXCEPT ![k] = d[2]]
        /\ discounts' = [discounts EXCEPT ![k] = d[3]]
        /\ done' = done \cup {k}
        /\ written' = written \cup {k}
    /\ UNCHANGED <<mainVars, rmVars, testVars, extVars, vec, out, v1, v2, firstVec, secondVec, points, profit,
                   execution_policy, partials, res, benchVars>>

PopulateReturn ==
    /\ bpc = "for_each"
    /\ AllDone(done, range0)
    /\ bpc' = "profit"
    /\ done' = {}
    /\ UNCHANGED <<mainVars, rmVars, testVars, extVars, bufVars, execution_policy, partials, res, written,
                   family, range0, iterations>>

\* Lines 120-123
ProfitElem ==
    /\ bpc = "profit"
    /\ \E k \in Eligible(execution_policy, done, range0) :
        /\ profit' = [profit EXCEPT ![k] = ProfitOf(prices[k], discounts[k], quantities[k])]
        /\ done' = done \cup {k}
    /\ UNCHANGED <<mainVars, rmVars, testVars, extVars, vec, out, v1, v2, firstVec, secondVec, points, prices,
                   quantities, discounts, execution_policy, partials, res, written,
                   benchVars>>

ProfitReturn ==
    /\ bpc = "profit"
    /\ AllDone(done, range0)
    /\ bpc' = "loop"
    /\ iterations' = iterations + 1
    /\ UNCHANGED <<mainVars, rmVars, testVars, extVars, bufVars, algVars, family, range0>>

NextBench ==
    \/ BM_Trigonometry_Setup \/ BM_SortPoints_Setup
    \/ BM_DotProduct_Setup \/ BM_CountingIter_Setup
    \/ BenchIterate \/ BenchFinish
    \/ TrigElem \/ TrigReturn
    \/ SortCall
    \/ DotElem \/ DotCombine \/ DotReturn
    \/ PopulateElem \/ PopulateReturn \/ ProfitElem \/ ProfitReturn

SpecBench == InitBench /\ [][NextBench]_vars

\* The algorithm call of the current iteration has returned.
Returned == bpc \in {"loop", "finished"} /\ iterations >= 1

\* C5: once the trigonometric transform returns, under every policy and
\* order of element accesses, every output slot holds f of its input slot,
\* the output is as long as the input, the input is unchanged, and the
\* output equals what the sequential policy leaves on the same input.
C5_TrigTransform ==
    /\ [](family = "BM_Trigonometry" /\ Returned =>
            /\ Len(out) = Len(vec)
            /\ Len(vec) = range0
            /\ \A k \in 1..Len(vec) : out[k] = TrigTable[vec[k]]
            /\ out = TransformUpTo(vec, vec, Len(vec)))
    /\ [][bpc # "setup" => vec' = vec]_vars

C5_Witness ==
    /\ family = "BM_Trigonometry"
    /\ execution_policy = "par"
    /\ Returned
    /\ iterations = 2
    /\ Len(vec) = 2
    /\ vec[1] # vec[2]
    /\ out # vec

\* C6: after every timed iteration of BM_CountingIter, under every policy,
\* profit[i] = prices[i] * (1 - discounts[i]) * quantities[i] for the values
\* written in that iteration; the populate pass has written every index
\* before the profit pass reads any, and a step writes only its own slot.
C6_CountingIter ==
    /\ [](family = "BM_CountingIter" =>
            /\ Returned =>
                \A k \in 1..range0 :
                    /\ k \in written
                    /\ profit[k] = (prices[k] * (100 - discounts[k])) * quantities[k]
            /\ bpc = "profit" => written = 1..range0)
    /\ [][family = "BM_CountingIter" /\ bpc \in {"for_each", "profit"} =>
            \A k \in 1..range0 :
                k \notin (done' \ done) =>
                    /\ prices'[k] = prices[k]
                    /\ quantities'[k] = quantities[k]
                    /\ discounts'[k] = discounts[k]
                    /\ profit'[k] = profit[k]]_vars
    /\ [][family = "BM_CountingIter" /\ bpc = "profit" =>
            <<prices, quantities, discounts>>' = <<prices, quantities, discounts>>]_vars

C6_Witness ==
    /\ family = "BM_CountingIter"
    /\ execution_policy = "par_unseq"
    /\ Returned
    /\ iterations = 2
    /\ range0 = 2
    /\ discounts[1] = 25
    /\ prices[1] # prices[2]

\* C7: after the sort of BM_SortPoints returns, under the sequential and
\* the parallel policy and after any number of iterations, every adjacent
\* pair of the buffer is ascending in x.
C7_SortedByX ==
    family = "BM_SortPoints" /\ Returned =>
        \A k \in 1..(Len(points) - 1) : points[k].x <= points[k + 1].x

C7_Witness ==
    /\ family = "BM_SortPoints"
    /\ execution_policy = "par"
    /\ Returned
    /\ iterations = 2
    /\ Len(points) = 2
    /\ points[1].x < points[2].x
    /\ points[1].y > points[2].y

RECURSIVE SumOfProducts(_, _, _)
SumOfProducts(a, b, k) ==
    IF k = 0 THEN 0 ELSE a[k] * b[k] + SumOfProducts(a, b, k - 1)

---------------------------------------------------------------------------
\* The manual-timing flow in detail: main from line 138 on, TestTrig
\* (IntelParSTL.cpp:51-94) and TestDotProduct (96-129), every lambda run
\* through RunAndMeasure.

\* Elapsed times the clock reports in this flow, in ticks (one value: the
\* timings of this flow are explored under SpecRun).
ManualDurations == {1}

\* Values of random_number_generator(), in units of 1/4.
UnitVals == {1, 3}

\* The policy of the k-th RunAndMeasure call of TestTrig and TestDotProduct.
CallPolicy == <<"seq", "par", "seq", "par">>

DecimalString(n) == <<DigitChars[n + 1]>>

InitManual ==
    /\ argc = 3
    /\ vecSize \in 0..MaxSize
    /\ step \in {0, 2, 3}
    /\ argv = <<DecimalString(vecSize), DecimalString(step)>>
    /\ pc = "main_138"
    /\ stdout = <<[kind |-> "size", value |-> vecSize]>>
    /\ RmIdle /\ BufIdle /\ AlgIdle /\ BenchIdle /\ TestIdle /\ RegIdle /\ RngIdle

\* Line 138, condition false
SkipTrig ==
    /\ pc = "main_138"
    /\ ~RunsTrig(step)
    /\ pc' = "main_141"
    /\ UNCHANGED <<argc, argv, vecSize, step, stdout, rmVars, otherVars>>

\* Lines 53-57
TestTrig_Enter ==
    /\ pc = "main_138"
    /\ RunsTrig(step)
    /\ vec' \in [1..vecSize -> AngleVals]
    /\ out' = vec'
    /\ stdout' = Append(stdout, TrigHeader)
    /\ pc' = "TestTrig"
    /\ callNo' = 1
    /\ UNCHANGED <<argc, argv, vecSize, step, rmVars, v1, v2, firstVec, secondVec,
                   points, prices, quantities, discounts, profit, algVars,
                   benchVars, extVars, fpc, oob>>

\* Line 141, condition false
SkipDotProduct ==
    /\ pc = "main_141"
    /\ ~RunsDotProduct(step)
    /\ pc' = "main_144"
    /\ UNCHANGED <<argc, argv, vecSize, step, stdout, rmVars, otherVars>>

\* Lines 98-104
TestDotProduct_Enter ==
    /\ pc = "main_141"
    /\ RunsDotProduct(step)
    /\ stdout' = Append(stdout, DotHeader)
    /\ v1' \in [1..vecSize -> UnitVals]
    /\ v2' \in [1..vecSize -> UnitVals]
    /\ pc' = "TestDotProduct"
    /\ callNo' = 1
    /\ UNCHANGED <<argc, argv, vecSize, step, rmVars, vec, out, firstVec, secondVec,
                   points, prices, quantities, discounts, profit, algVars,
                   benchVars, extVars, fpc, oob>>

\* A call RunAndMeasure(label, lambda) of TestTrig or TestDotProduct begins.
Test_RunAndMeasure ==
    /\ pc \in {"TestTrig", "TestDotProduct"}
    /\ callNo \in 1..4
    /\ fpc = "idle"
    /\ RM_Enter(IF pc = "TestTrig" THEN TrigLabels[callNo] ELSE DotLabels[callNo])
    /\ execution_policy' = CallPolicy[callNo]
    /\ UNCHANGED <<mainVars, bufVars, done, partials, res, written, benchVars, extVars, testVars>>

\* func() is invoked: line 23 (warm-up) or line 27 (timed).
Lambda_Begin ==
    /\ pc \in {"TestTrig", "TestDotProduct"}
    /\ fpc = "idle"
    /\ rmpc = "warm" \/ (rmpc = "loop" /\ i < RUN_TIMES)
    /\ fpc' = IF pc = "TestTrig" THEN "transform" ELSE "transform_reduce"
    /\ done' = {}
    /\ partials' = IF pc = "TestTrig" THEN EmptyBag ELSE OneBag(0)
    /\ UNCHANGED <<mainVars, rmVars, bufVars, execution_policy, res, written,
                   benchVars, extVars, callNo, oob>>

\* The lambda returned ret to RunAndMeasure.
Lambda_Returned(ret) ==
    /\ fpc' = "idle"
    /\ \/ RM_WarmUp(ret)
       \/ \E d \in ManualDurations : RM_Timed(ret, d)

\* Lines 60-64 (and 69-73, 78-82, 87-91): one element of the transform
Trig_Elem ==
    /\ fpc = "transform"
    /\ \E k \in Eligible(execution_policy, done, Len(vec)) :
        /\ out' = TransformElem(out, vec, k)
        /\ done' = done \cup {k}
    /\ UNCHANGED <<mainVars, rmVars, vec, v1, v2, firstVec, secondVec, points,
                   prices, quantities, discounts, profit, execution_policy,
                   partials, res, written, benchVars, extVars, testVars>>

\* Line 65 (74, 83, 92): return out[0], the buffer holding an element 0
Trig_Return ==
    /\ fpc = "transform"
    /\ AllDone(done, Len(vec))
    /\ Len(out) >= 1
    /\ Lambda_Returned(out[1])
    /\ UNCHANGED <<mainVars, bufVars, algVars, benchVars, extVars, callNo, oob>>

\* Line 65 (74, 83, 92): return out[0] on an empty buffer reads outside it;
\* the read yields some value or the process is stopped.
Trig_ReturnOutOfBounds ==
    /\ fpc = "transform"
    /\ AllDone(done, Len(vec))
    /\ Len(out) = 0
    /\ oob' = TRUE
    /\ \/ /\ \E garbage \in Values : Lambda_Returned(garbage)
          /\ UNCHANGED mainVars
       \/ /\ pc' = "crashed"
          /\ fpc' = "idle"
          /\ UNCHANGED <<argc, argv, vecSize, step, stdout, rmVars>>
    /\ UNCHANGED <<bufVars, algVars, benchVars, extVars, callNo>>

\* Lines 107-108 (113-114, 119-120, 125-126): one element of transform_reduce
Dot_Elem ==
    /\ fpc = "transform_reduce"
    /\ \E k \in Eligible(execution_policy, done, Len(v1)) :
        /\ partials' \in ReduceElemResults(execution_policy, partials,
                                           Multiplies(v1[k], v2[k]))
        /\ done' = done \cup {k}
    /\ UNCHANGED <<mainVars, rmVars, bufVars, execution_policy, res, written,
                   benchVars, extVars, testVars>>

Dot_Combine ==
    /\ fpc = "transform_reduce"
    /\ execution_policy # "seq"
    /\ partials' \in ReduceCombineResults(partials)
    /\ UNCHANGED <<mainVars, rmVars, bufVars, execution_policy, done, res, written,
                   benchVars, extVars, testVars>>

\* Line 109 (115, 121, 127): return res
Dot_Return ==
    /\ fpc = "transform_reduce"
    /\ AllDone(done, Len(v1))
    /\ BagCardinality(partials) = 1
    /\ \E r \in BagToSet(partials) :
        /\ res' = r
        /\ Lambda_Returned(r)
    /\ UNCHANGED <<mainVars, bufVars, execution_policy, done, partials, written,
                   benchVars, extVars, callNo, oob>>

\* Line 33 of the current RunAndMeasure call; the call returns.
Test_Print ==
    /\ pc \in {"TestTrig", "TestDotProduct"}
    /\ fpc = "idle"
    /\ RM_Print
    /\ callNo' = callNo + 1
    /\ UNCHANGED <<argc, argv, vecSize, step, pc, bufVars, algVars, benchVars, extVars, fpc, oob>>

\* Line 94 / line 129: the function returns and its buffers are destroyed.
Test_Return ==
    /\ pc \in {"TestTrig", "TestDotProduct"}
    /\ callNo = 5
    /\ pc' = IF pc = "TestTrig" THEN "main_141" ELSE "main_144"
    /\ callNo' = 0
    /\ vec' = <<>> /\ out' = <<>> /\ v1' = <<>> /\ v2' = <<>>
    /\ UNCHANGED <<argc, argv, vecSize, step, stdout, rmVars, firstVec, secondVec,
                   points, prices, quantities, discounts, profit, algVars,
                   benchVars, extVars, fpc, oob>>

NextManual ==
    \/ SkipTrig \/ TestTrig_Enter \/ SkipDotProduct \/ TestDotProduct_Enter
    \/ Test_RunAndMeasure \/ Lambda_Begin
    \/ Trig_Elem \/ Trig_Return \/ Trig_ReturnOutOfBounds
    \/ Dot_Elem \/ Dot_Combine \/ Dot_Return
    \/ Test_Print \/ Test_Return \/ MainReturn

SpecManual == InitManual /\ [][NextManual]_vars

\* C1: for input size 0 every operation of the manual-timing flow completes
\* without error: no element of an empty buffer is read or written, the
\* process is not stopped, and the output buffer is empty.
C1_EmptyInputIsSafe ==
    vecSize = 0 =>
        /\ ~oob
        /\ pc # "crashed"
        /\ pc = "TestTrig" => out = <<>>

---------------------------------------------------------------------------
\* Registration of the benchmark cases (IntelCompilerTests.cpp:56-59, 78-79,
\* 97-100, 127-130) and their expansion by BENCHMARK_MAIN (line 132)

ArgCall(x)             == [op |-> "Arg", a |-> x, b |-> 0]
RangeMultiplierCall(m) == [op |-> "RangeMultiplier", a |-> m, b |-> 0]
RangeCall(lo, hi)      == [op |-> "Range", a |-> lo, b |-> hi]
UnitCall               == [op |-> "Unit", a |-> 0, b |-> 0]

\* ->Arg(1000)->Arg(10000)->Arg(100000)->Arg(1000000)->Unit(kMicrosecond)
ArgsChain ==
    <<ArgCall(1000), ArgCall(10000), ArgCall(100000), ArgCall(1000000), UnitCall>>

\* ->RangeMultiplier(10)->Range(1000, 1000000)->Unit(kMicrosecond)
RangeChain == <<RangeMultiplierCall(10), RangeCall(1000, 1000000), UnitCall>>

\* ->Arg(1000)->RangeMultiplier(10)->Range(1000, 1000000)->Unit(kMicrosecond)
ArgRangeChain == <<ArgCall(1000)>> \o RangeChain

Capture(f, n, c) == [func |-> f, name |-> n, chain |-> c]

\* The BENCHMARK_CAPTURE lines of the file, in the order of the file.
Registrations == <<
    Capture("BM_Trigonometry", "pstl_seq", ArgsChain),
    Capture("BM_Trigonometry", "pstl_unseq", ArgsChain),
    Capture("BM_Trigonometry", "pstl_par", ArgsChain),
    Capture("BM_Trigonometry", "pstl_par_unseq", ArgsChain),
    Capture("BM_SortPoints", "pstl_seq", RangeChain),
    Capture("BM_SortPoints", "pstl_par", RangeChain),
    Capture("BM_DotProduct", "pstl_seq", RangeChain),
    Capture("BM_DotProduct", "pstl_unseq", RangeChain),
    Capture("BM_DotProduct", "pstl_par", RangeChain),
    Capture("BM_DotProduct", "pstl_par_unseq", RangeChain),
    Capture("BM_CountingIter", "pstl_seq", RangeChain),
    Capture("BM_CountingIter", "pstl_unseq", RangeChain),
    Capture("BM_CountingIter", "pstl_par", ArgRangeChain),
    Capture("BM_CountingIter", "pstl_par_unseq", RangeChain) >>

\* Benchmark::Range: lo, then the powers of the multiplier strictly between
\* lo and hi, then hi (when it differs from lo).
RECURSIVE RangePowers(_, _, _, _)
RangePowers(p, lo, hi, mult) ==
    IF p >= hi THEN <<>>
    ELSE (IF p > lo THEN <<p>> ELSE <<>>) \o RangePowers(p * mult, lo, hi, mult)

AddRange(lo, hi, mult) ==
    <<lo>> \o RangePowers(1, lo, hi, mult) \o (IF hi # lo THEN <<hi>> ELSE <<>>)

\* The effect of one builder call on the benchmark object under construction.
ApplyCall(bm, c) ==
    CASE c.op = "Arg" -> [bm EXCEPT !.args = Append(@, c.a)]
      [] c.op = "RangeMultiplier" -> [bm EXCEPT !.range_multiplier = c.a]
      [] c.op = "Range" -> [bm EXCEPT !.args = @ \o AddRange(c.a, c.b, bm.range_multiplier)]
      [] c.op = "Unit" -> [bm EXCEPT !.unit = "us"]

InitReg ==
    /\ MainIdle /\ RmIdle /\ BufIdle /\ AlgIdle /\ BenchIdle /\ TestIdle /\ RngIdle
    /\ regpc = "register"
    /\ regLine = 1
    /\ regCall = 0
    /\ cur = <<>>
    /\ registry = <<>>
    /\ instances = <<>>

regOthers == <<mainVars, rmVars, bufVars, algVars, benchVars, testVars, rngVars>>

\* BENCHMARK_CAPTURE(func, name, policy): a benchmark object is created.
Reg_Capture ==
    /\ regpc = "register"
    /\ regLine <= Len(Registrations)
    /\ regCall = 0
    /\ cur' = [func |-> Registrations[regLine].func,
               name |-> Registrations[regLine].name,
               args |-> <<>>, range_multiplier |-> 8, unit |-> "ns"]
    /\ regCall' = 1
    /\ UNCHANGED <<regpc, regLine, registry, instances, regOthers>>

\* The next ->Arg / ->RangeMultiplier / ->Range / ->Unit of the line.
Reg_Call ==
    /\ regpc = "register"
    /\ regCall >= 1
    /\ regCall <= Len(Registrations[regLine].chain)
    /\ cur' = ApplyCall(cur, Registrations[regLine].chain[regCall])
    /\ regCall' = regCall + 1
    /\ UNCHANGED <<regpc, regLine, registry, instances, regOthers>>

\* The line ends: the benchmark object stays in the registry.
Reg_Done ==
    /\ regpc = "register"
    /\ regCall > Len(Registrations[regLine].chain)
    /\ registry' = Append(registry, cur)
    /\ regLine' = regLine + 1
    /\ regCall' = 0
    /\ regpc' = IF regLine = Len(Registrations) THEN "expand" ELSE "register"
    /\ UNCHANGED <<cur, instances, regOthers>>

\* BENCHMARK_MAIN: the harness makes one timed case of each argument of each
\* registered benchmark object, in order.
ExpandedArgs(k) == Len(SelectSeq(instances, LAMBDA c : c.line = k))

Main_Expand ==
    /\ regpc = "expand"
    /\ \E k \in 1..Len(registry) :
        /\ \A m \in 1..(k - 1) : ExpandedArgs(m) = Len(registry[m].args)
        /\ ExpandedArgs(k) < Len(registry[k].args)
        /\ instances' = Append(instances,
              [line |-> k, func |-> registry[k].func, name |-> registry[k].name,
               size |-> registry[k].args[ExpandedArgs(k) + 1]])
    /\ UNCHANGED <<regpc, regLine, regCall, cur, registry, regOthers>>

Main_Expanded ==
    /\ regpc = "expand"
    /\ \A k \in 1..Len(registry) : ExpandedArgs(k) = Len(registry[k].args)
    /\ regpc' = "registered"
    /\ UNCHANGED <<regLine, regCall, cur, registry, instances, regOthers>>

NextReg == Reg_Capture \/ Reg_Call \/ Reg_Done \/ Main_Expand \/ Main_Expanded

SpecReg == InitReg /\ [][NextReg]_vars

CasesOf(f, n, sz) ==
    {k \in 1..Len(instances) :
        instances[k].func = f /\ instances[k].name = n /\ instances[k].size = sz}

\* C4: once registration is complete, every registered operation/policy pair
\* has each of the sizes 1,000 / 10,000 / 100,000 / 1,000,000 registered
\* exactly once.
C4_OneCasePerSize ==
    regpc = "registered" =>
        \A k \in 1..Len(registry) :
            \A sz \in {1000, 10000, 100000, 1000000} :
                Cardinality(CasesOf(registry[k].func, registry[k].name, sz)) = 1

---------------------------------------------------------------------------
\* The random generators (IntelParSTL.cpp:36-49, IntelCompilerTests.cpp:23-37)
\* called from the worker threads of a parallel operation

\* Worker threads of the parallel operation.
NumThreads == 2
Threads == 1..NumThreads

\* Most generator calls made in one run.
MaxCalls == 3

Generators == {"GenRandomFloat", "GenRandomInt", "random_number_generator"}

\* std::default_random_engine, default-constructed: the minimal standard
\* generator x' = 16807 * x mod (2^31 - 1) from seed 1, computed without
\* overflow (16807 * 127773 + 2836 = 2^31 - 1).
DefaultSeed == 1
LcgNext(x) ==
    LET t == 16807 * (x % 127773) - 2836 * (x \div 127773)
    IN  IF t < 0 THEN t + 2147483647 ELSE t

RECURSIVE LcgAfter(_)
LcgAfter(n) == IF n = 0 THEN DefaultSeed ELSE LcgNext(LcgAfter(n - 1))

\* How many engine outputs one call of the distribution consumes: one for a
\* float, two for a double, one or more for an int (rejection sampling).
DrawsOf(f) ==
    CASE f = "GenRandomFloat" -> {1}
      [] f = "random_number_generator" -> {2}
      [] f = "GenRandomInt" -> {1, 2}

\* `thread_local static std::default_random_engine rd;` : the engine object
\* the function f uses when thread t runs it.
EngineSlotStatic(f, t) == <<f, 1>>
EngineSlot(f, t) == <<f, t>>

Slots == Generators \X Threads

NoEngine == [made |-> FALSE, x |-> 0]

TotalCalls == LET RECURSIVE Sum(_)
                  Sum(S) == IF S = {} THEN 0
                            ELSE LET s == CHOOSE s \in S : TRUE
                                 IN  callCount[s] + Sum(S \ {s})
              IN  Sum(Slots)

InitRng ==
    /\ MainIdle /\ RmIdle /\ BufIdle /\ AlgIdle /\ BenchIdle /\ TestIdle /\ RegIdle
    /\ engine = [s \in Slots |-> NoEngine]
    /\ tpc = [t \in Threads |-> [at |-> "idle", fn |-> "", x |-> 0, left |-> 0]]
    /\ drawCount = [s \in Slots |-> 0]
    /\ callCount = [s \in Slots |-> 0]

rngOthers == <<mainVars, rmVars, bufVars, algVars, benchVars, testVars, regVars>>

\* Thread t enters f: the engine is constructed on the thread's first pass
\* through the declaration, then the distribution object is made.
Gen_Call(t, f) ==
    /\ tpc[t].at = "idle"
    /\ TotalCalls < MaxCalls
    /\ engine' = IF engine[EngineSlot(f, t)].made THEN engine
                 ELSE [engine EXCEPT ![EngineSlot(f, t)] = [made |-> TRUE, x |-> DefaultSeed]]
    /\ \E n \in DrawsOf(f) :
          tpc' = [tpc EXCEPT ![t] = [at |-> "dist", fn |-> f, x |-> 0, left |-> n]]
    /\ callCount' = [callCount EXCEPT ![<<f, t>>] = @ + 1]
    /\ UNCHANGED <<drawCount, rngOthers>>

\* dist(rd), first half: the engine's state is read.
Gen_Read(t) ==
    /\ tpc[t].at = "dist"
    /\ tpc[t].left > 0
    /\ tpc' = [tpc EXCEPT ![t].at = "advance",
                          ![t].x = engine[EngineSlot(tpc[t].fn, t)].x]
    /\ UNCHANGED <<engine, drawCount, callCount, rngOthers>>

\* dist(rd), second half: the advanced state is written back.
Gen_Write(t) ==
    /\ tpc[t].at = "advance"
    /\ engine' = [engine EXCEPT ![EngineSlot(tpc[t].fn, t)].x = LcgNext(tpc[t].x)]
    /\ drawCount' = [drawCount EXCEPT ![<<tpc[t].fn, t>>] = @ + 1]
    /\ tpc' = [tpc EXCEPT ![t].at = "dist", ![t].left = @ - 1]
    /\ UNCHANGED <<callCount, rngOthers>>

\* return dist(rd);
Gen_Return(t) ==
    /\ tpc[t].at = "dist"
    /\ tpc[t].left = 0
    /\ tpc' = [tpc EXCEPT ![t] = [at |-> "idle", fn |-> "", x |-> 0, left |-> 0]]
    /\ UNCHANGED <<engine, drawCount, callCount, rngOthers>>

\* Thread t ends: its thread-local engines are destroyed.
Thread_Exit(t) ==
    /\ tpc[t].at = "idle"
    /\ tpc' = [tpc EXCEPT ![t].at = "exited"]
    /\ engine' = [s \in Slots |->
                    IF \E f \in Generators : s = EngineSlot(f, t) THEN NoEngine
                    ELSE engine[s]]
    /\ drawCount' = [s \in Slots |-> IF s[2] = t THEN 0 ELSE drawCount[s]]
    /\ UNCHANGED <<callCount, rngOthers>>

NextRng ==
    \/ \E t \in Threads, f \in Generators : Gen_Call(t, f)
    \/ \E t \in Threads : Gen_Read(t)
    \/ \E t \in Threads : Gen_Write(t)
    \/ \E t \in Threads : Gen_Return(t)
    \/ \E t \in Threads : Thread_Exit(t)

SpecRng == InitRng /\ [][NextRng]_vars

\* C9: under every interleaving of generator calls by worker threads, each
\* thread has its own engine per generator, created on that thread's first
\* call and kept until the thread ends; no update of an engine is lost, and
\* a step of one thread leaves the engines of every other thread unchanged.
C9_ThreadLocalEngines ==
    /\ [](\A s \in Slots :
            /\ engine[s].made <=> (callCount[s] > 0 /\ tpc[s[2]].at # "exited")
            /\ engine[s].made => engine[s].x = LcgAfter(drawCount[s]))
    /\ [][\A t \in Threads :
            tpc'[t] = tpc[t] => \A f \in Generators : engine'[<<f, t>>] = engine[<<f, t>>]]_vars

C9_Witness ==
    /\ engine[<<"GenRandomFloat", 1>>].made
    /\ engine[<<"GenRandomFloat", 2>>].made
    /\ drawCount[<<"GenRandomFloat", 1>>] = 1
    /\ drawCount[<<"GenRandomFloat", 2>>] = 1
    /\ ~engine[<<"GenRandomInt", 2>>].made
    /\ tpc[1].at = "advance"
    /\ tpc[1].fn = "GenRandomInt"

====
